---------------------------- MODULE Spec2Model ----------------------------
(***************************************************************************)
(* A model of lazymate's matching-and-control engine.                      *)
(*                                                                         *)
(*   SpecApi  the applications API (controller + unique index) driven by   *)
(*            concurrent crawl runs through the desktop API client.        *)
(*   SpecCtl  the renderer (App.tsx), the preload bridge and the           *)
(*            Automation Controller state machine behind it.               *)
(*   SpecRel  the two-stage relevance filter of ollama.ts and gemini.ts    *)
(*            with their title caches, under overlapping checks.           *)
(*   SpecCo   the companies API (controller + unique index) under          *)
(*            concurrent crawl runs.                                       *)
(*   SpecEmb  the embedding cache table under concurrent callers.          *)
(*   SpecCache   the title caches at capacity.                             *)
(*   SpecDraft   generateApplication of both modules.                      *)
(*   SpecCos     cosineSimilarity on vectors of zero magnitude.            *)
(*   SpecClient  the API client's existence checks against any server.     *)
(***************************************************************************)
EXTENDS Integers, Sequences, FiniteSets, TLC

VARIABLES
    applications,   \* rows of the "Application" table, in insertion order
    run,            \* per crawl run: position in the per-job pipeline
    jobsYielded,    \* jobs yielded so far by all crawl drivers
    lookup,         \* API client: the existence check in flight and its end
    lookups,        \* existence checks made so far
    ui,             \* App.tsx state: hasResume, isRunning, isPaused, ...
    logs,           \* App.tsx logs state (the activity log)
    uploads,        \* resume uploads started
    resumeSaved,    \* main process: a resume is saved and its embedding computed
    ipcToMain,      \* control messages sent by the renderer, not yet handled
    ctl,            \* Automation Controller state
    job,            \* the controller's job in flight, if any
    jobsStarted,    \* jobs the controller began processing
    jobErrors,      \* unexpected errors thrown while processing a job
    emitted,        \* log events the controller sent on the 'log' channel
    delivered,      \* how many of them the renderer's listener has received
    provider,       \* the AI module the relevance filter is built on
    userProfileEmbedding, \* ollama.ts: the profile embedding passed to the checks
    userProfile,    \* gemini.ts: the profile text passed to the checks
    jobTitleCache,  \* ollama.ts jobTitleCache, in insertion order
    geminiJobTitleCache, \* gemini.ts jobTitleCache, in insertion order
    worker,         \* per pipeline: the job it is filtering and what came back
    checksBegun,    \* jobs that entered the relevance filter
    companies,      \* rows of the "Company" table, in insertion order
    companyReq,     \* per crawl run: its company-create request at the API
    companyRequests, \* company-create requests made so far
    jobTextEmbeddings, \* rows of the "JobTextEmbedding" table
    embedCall,      \* per caller of the embedding cache: its call
    embedCalls      \* embedding-cache calls made so far

clientVars == <<lookup, lookups>>
apiVars == <<applications, run, jobsYielded, lookup, lookups>>
uiVars == <<ui, logs, uploads>>
ctlVars == <<resumeSaved, ipcToMain, ctl, job, jobsStarted, jobErrors,
             emitted, delivered>>
relVars == <<provider, userProfileEmbedding, userProfile, jobTitleCache,
             geminiJobTitleCache, worker, checksBegun>>
dbVars == <<companies, companyReq, companyRequests>>
embVars == <<jobTextEmbeddings, embedCall, embedCalls>>
vars == <<applications, run, jobsYielded, lookup, lookups, ui, logs,
          uploads, resumeSaved, ipcToMain, ctl, job, jobsStarted, jobErrors, emitted, delivered,
          provider, userProfileEmbedding, userProfile, jobTitleCache,
          geminiJobTitleCache, worker, checksBegun,
          companies, companyReq, companyRequests,
          jobTextEmbeddings, embedCall, embedCalls>>

---------------------------------------------------------------------------
(* Bounds and finite domains                                               *)

\* total number of job links the crawl drivers yield
MaxJobs == 3
\* existence checks the API client makes
MaxLookups == 4
\* jobs one controller run processes
MaxCtlJobs == 2
\* resume uploads in one session
MaxUploads == 1
\* control messages in flight from the renderer to the main process
MaxQueue == 2

Owners == {"A", "B"}
Urls == {"u1", "u2"}
\* two concurrent runs of owner A and one run of owner B
Runs == {"r1", "r2", "r3"}
RunOwner == ("r1" :> "A") @@ ("r2" :> "A") @@ ("r3" :> "B")

RecordStatus == {"submitted", "skipped"}

---------------------------------------------------------------------------
(* Renderer (App.tsx), preload bridge, Automation Controller               *)

InitialUi ==
    [hasResume |-> FALSE, isRunning |-> FALSE, isPaused |-> FALSE,
     isParsing |-> FALSE, isLoading |-> TRUE, editMode |-> FALSE]

CtlAtRest ==
    /\ ui = InitialUi
    /\ logs = << >>
    /\ uploads = 0
    /\ resumeSaved = FALSE
    /\ ipcToMain = << >>
    /\ ctl = "Idle"
    /\ job = "none"
    /\ jobsStarted = 0
    /\ jobErrors = 0
    /\ emitted = << >>
    /\ delivered = 0

\* stop ends the process and quits the app: nothing runs afterwards
AppAlive == ctl # "Stopped"

\* contextBridge: ipcRenderer.invoke / ipcRenderer.send put a message on the
\* channel to the main process
IpcSend(msg) ==
    /\ Len(ipcToMain) < MaxQueue
    /\ ipcToMain' = Append(ipcToMain, msg)

\* setLogs((prev) => [...prev, { ...entry, timestamp: new Date() }])
PrependLog(prev, entry) == <<entry>> \o prev
AppendLog(prev, entry) == Append(prev, entry)

UiLog(type) == [type |-> type, from |-> "ui"]
MainLog(type) == [type |-> type, from |-> "main"]

\* what getUserProfile can resolve to: null, or { hasResume }
NullProfile == [isNull |-> TRUE, hasResume |-> FALSE]
SavedProfiles ==
    IF resumeSaved THEN {[isNull |-> FALSE, hasResume |-> TRUE]}
                   ELSE {NullProfile, [isNull |-> FALSE, hasResume |-> FALSE]}

\* App.tsx: if (savedProfile && savedProfile.hasResume)
ProfileHasResumeAnyProfile(savedProfile) == ~savedProfile.isNull
ProfileHasResume(savedProfile) ==
    ~savedProfile.isNull /\ savedProfile.hasResume

ReadViewShown == ~ui.isLoading /\ ~ui.editMode
EditViewShown == ~ui.isLoading /\ ui.editMode

\* loadProfile effect, getUserProfile resolved
LoadProfileResolved(savedProfile) ==
    /\ AppAlive
    /\ ui.isLoading
    /\ ui' = IF ProfileHasResume(savedProfile)
                THEN [ui EXCEPT !.hasResume = TRUE, !.isLoading = FALSE]
                ELSE [ui EXCEPT !.editMode = TRUE, !.isLoading = FALSE]
    /\ UNCHANGED <<logs, uploads, ctlVars, apiVars, relVars, dbVars, embVars>>

\* loadProfile effect, getUserProfile rejected
LoadProfileRejected ==
    /\ AppAlive
    /\ ui.isLoading
    /\ ui' = [ui EXCEPT !.editMode = TRUE, !.isLoading = FALSE]
    /\ UNCHANGED <<logs, uploads, ctlVars, apiVars, relVars, dbVars, embVars>>

\* ProfileReadView "Replace" / "Upload" button
OnEdit ==
    /\ AppAlive
    /\ ReadViewShown
    /\ ui' = [ui EXCEPT !.editMode = TRUE]
    /\ UNCHANGED <<logs, uploads, ctlVars, apiVars, relVars, dbVars, embVars>>

\* ProfileEditView "Cancel" button, rendered only when a resume exists
OnCancel ==
    /\ AppAlive
    /\ EditViewShown
    /\ ui.hasResume
    /\ ui' = [ui EXCEPT !.editMode = FALSE]
    /\ UNCHANGED <<logs, uploads, ctlVars, apiVars, relVars, dbVars, embVars>>

\* handleFileUpload up to its await
FileUploadStart ==
    /\ AppAlive
    /\ EditViewShown
    /\ ~(ui.isParsing \/ ui.isRunning)
    /\ uploads < MaxUploads
    /\ uploads' = uploads + 1
    /\ ui' = [ui EXCEPT !.isParsing = TRUE]
    /\ logs' = AppendLog(logs, UiLog("info"))
    /\ UNCHANGED <<ctlVars, apiVars, relVars, dbVars, embVars>>

\* handleFileUpload after saveResume resolved (ok) or anything threw
FileUploadDone(ok) ==
    /\ AppAlive
    /\ ui.isParsing
    /\ IF ok
       THEN /\ resumeSaved' = TRUE
            /\ ui' = [ui EXCEPT !.hasResume = TRUE, !.editMode = FALSE,
                                !.isParsing = FALSE]
            /\ logs' = AppendLog(logs, UiLog("success"))
       ELSE /\ ui' = [ui EXCEPT !.isParsing = FALSE]
            /\ logs' = AppendLog(logs, UiLog("error"))
            /\ UNCHANGED resumeSaved
    /\ UNCHANGED <<uploads, ipcToMain, ctl, job, jobsStarted, jobErrors,
                   emitted, delivered, apiVars, relVars, dbVars, embVars>>

\* ProfileReadView: <Button onClick={onStart} disabled={!hasResume}>
StartButtonEnabled == ui.hasResume

\* handleStart
HandleStart ==
    /\ AppAlive
    /\ ReadViewShown
    /\ ~ui.isRunning
    /\ StartButtonEnabled
    /\ ui' = [ui EXCEPT !.isRunning = TRUE, !.isPaused = FALSE]
    /\ IpcSend("start")
    /\ UNCHANGED <<logs, uploads, resumeSaved, ctl, job, jobsStarted,
                   jobErrors, emitted, delivered, apiVars, relVars, dbVars,
                   embVars>>

\* handleTogglePause: the message sent for the current isPaused
TogglePauseMessageSwapped(isPaused) == IF isPaused THEN "pause" ELSE "resume"
TogglePauseMessage(isPaused) == IF isPaused THEN "resume" ELSE "pause"

\* handleTogglePause
HandleTogglePause ==
    /\ AppAlive
    /\ ReadViewShown
    /\ ui.isRunning
    /\ IpcSend(TogglePauseMessage(ui.isPaused))
    /\ ui' = [ui EXCEPT !.isPaused = ~ui.isPaused]
    /\ UNCHANGED <<logs, uploads, resumeSaved, ctl, job, jobsStarted,
                   jobErrors, emitted, delivered, apiVars, relVars, dbVars,
                   embVars>>

\* window.api.stopAutomation()
StopAutomation ==
    /\ AppAlive
    /\ IpcSend("stop")
    /\ UNCHANGED <<ui, logs, uploads, resumeSaved, ctl, job, jobsStarted,
                   jobErrors, emitted, delivered, apiVars, relVars, dbVars,
                   embVars>>

\* onLog listener: a 'log' event arrives and is appended to logs
OnLog ==
    /\ AppAlive
    /\ delivered < Len(emitted)
    /\ delivered' = delivered + 1
    /\ logs' = AppendLog(logs, MainLog(emitted[delivered + 1]))
    /\ UNCHANGED <<ui, uploads, resumeSaved, ipcToMain, ctl, job, jobsStarted,
                   jobErrors, emitted, apiVars, relVars, dbVars, embVars>>

\* ActivityLog: logs.filter((l) => l.type === 'success' || l.type ===
\* 'match').length and logs.filter((l) => l.type === 'skip').length
MatchedCount ==
    Cardinality({i \in 1..Len(logs) : logs[i].type \in {"success", "match"}})
SkippedCount ==
    Cardinality({i \in 1..Len(logs) : logs[i].type = "skip"})

(* Automation Controller                                                   *)

\* The state a control message moves the controller to; a message that
\* does not apply in the current state is dropped.
CtlAfter(msg) ==
    CASE msg = "start"  /\ ctl = "Idle" /\ resumeSaved  -> "Running"
      [] msg = "pause"  /\ ctl = "Running"              -> "Paused"
      [] msg = "resume" /\ ctl = "Paused"               -> "Running"
      [] msg = "stop"   /\ ctl \in {"Running", "Paused"} -> "Stopped"
      [] OTHER                                          -> ctl

\* the main process handles the next control message
CtlHandle(msg) ==
    /\ AppAlive
    /\ ipcToMain # << >>
    /\ Head(ipcToMain) = msg
    /\ ipcToMain' = Tail(ipcToMain)
    /\ ctl' = CtlAfter(msg)
    /\ UNCHANGED <<uiVars, resumeSaved, job, jobsStarted, jobErrors, emitted,
                   delivered, apiVars, relVars, dbVars, embVars>>

\* the checkpoint between jobs: a new job begins only while Running
MayBeginJobIgnoringPause == ctl \in {"Running", "Paused"}
MayBeginJob == ctl = "Running"

CtlBeginJob ==
    /\ MayBeginJob
    /\ job = "none"
    /\ jobsStarted < MaxCtlJobs
    /\ job' = "inflight"
    /\ jobsStarted' = jobsStarted + 1
    /\ UNCHANGED <<uiVars, resumeSaved, ipcToMain, ctl, jobErrors, emitted,
                   delivered, apiVars, relVars, dbVars, embVars>>

\* cancellation is checked at every suspension point: a job continues
\* only while the controller is Running or Paused
JobMayContinueAfterStop == TRUE
JobMayContinue == ctl \in {"Running", "Paused"}

\* the job in flight reaches a terminal outcome and its event is emitted
CtlFinishJob(outcome) ==
    /\ JobMayContinue
    /\ job = "inflight"
    /\ job' = "none"
    /\ emitted' = Append(emitted, outcome)
    /\ UNCHANGED <<uiVars, resumeSaved, ipcToMain, ctl, jobsStarted,
                   jobErrors, delivered, apiVars, relVars, dbVars, embVars>>

\* the controller state after an unexpected error in one job
CtlAfterJobErrorAborts == "Stopped"
CtlAfterJobError == ctl

\* an unexpected error is thrown while the job in flight is processed
CtlJobError ==
    /\ JobMayContinue
    /\ job = "inflight"
    /\ jobErrors' = jobErrors + 1
    /\ job' = "none"
    /\ emitted' = Append(emitted, "error")
    /\ ctl' = CtlAfterJobError
    /\ UNCHANGED <<uiVars, resumeSaved, ipcToMain, jobsStarted, delivered,
                   apiVars, relVars, dbVars, embVars>>


---------------------------------------------------------------------------
(* Texts and vectors                                                       *)

\* A text is a sequence of character codes; a vector is a sequence of
\* integers.
Whitespace == {9, 10, 13, 32}

\* String.prototype.trim
RECURSIVE TrimStart(_)
TrimStart(s) ==
    IF Len(s) > 0 /\ s[1] \in Whitespace THEN TrimStart(Tail(s)) ELSE s

RECURSIVE TrimEnd(_)
TrimEnd(s) ==
    IF Len(s) > 0 /\ s[Len(s)] \in Whitespace
    THEN TrimEnd(SubSeq(s, 1, Len(s) - 1))
    ELSE s

Trim(s) == TrimEnd(TrimStart(s))

\* String.prototype.toUpperCase on the letters a..z
ToUpperCase(s) ==
    [i \in 1..Len(s) |-> IF s[i] \in 97..122 THEN s[i] - 32 ELSE s[i]]

\* the letters A..Z turned to lower case
ToLowerCase(s) ==
    [i \in 1..Len(s) |-> IF s[i] \in 65..90 THEN s[i] + 32 ELSE s[i]]

\* every run of whitespace replaced by one space
RECURSIVE CollapseWhitespace(_)
CollapseWhitespace(s) ==
    IF Len(s) = 0 THEN s
    ELSE IF s[1] \notin Whitespace
         THEN <<s[1]>> \o CollapseWhitespace(Tail(s))
    ELSE IF Len(s) > 1 /\ s[2] \in Whitespace
         THEN CollapseWhitespace(Tail(s))
    ELSE <<32>> \o CollapseWhitespace(Tail(s))

\* the normal form of a text: trimmed, whitespace collapsed, lower case
NormalizeText(s) == ToLowerCase(CollapseWhitespace(Trim(s)))

\* a and b are the same text inside whitespace: a core that both contain,
\* with nothing but whitespace before and after it
DifferOnlyInOuterWhitespace(a, b) ==
    \E i \in 0..Len(a), k \in 0..Len(b) :
        \E j \in i..Len(a), l \in k..Len(b) :
            /\ SubSeq(a, i + 1, j) = SubSeq(b, k + 1, l)
            /\ \A n \in (1..i) \cup ((j + 1)..Len(a)) : a[n] \in Whitespace
            /\ \A n \in (1..k) \cup ((l + 1)..Len(b)) : b[n] \in Whitespace

\* a and b differ in incidental whitespace or letter case only
DifferOnlyInWhitespaceOrCase(a, b) == NormalizeText(a) = NormalizeText(b)

\* String.prototype.includes
Includes(s, sub) ==
    \E i \in 1..(Len(s) - Len(sub) + 1) : SubSeq(s, i, i + Len(sub) - 1) = sub

\* String.prototype.substring(0, n)
Substring(s, n) == SubSeq(s, 1, IF Len(s) < n THEN Len(s) ELSE n)

\* vecA.reduce((sum, a, i) => sum + a * vecB[i], 0), for Len(vecA) <= Len(vecB)
RECURSIVE DotProduct(_, _)
DotProduct(vecA, vecB) ==
    IF Len(vecA) = 0 THEN 0
    ELSE vecA[1] * vecB[1] + DotProduct(Tail(vecA), Tail(vecB))

\* vec.reduce((sum, a) => sum + a * a, 0): the squared magnitude
RECURSIVE SumOfSquares(_)
SumOfSquares(vec) ==
    IF Len(vec) = 0 THEN 0
    ELSE vec[1] * vec[1] + SumOfSquares(Tail(vec))

\* cosineSimilarity. The value is kept exact: [dot, normSq] stands for
\* dot / sqrt(normSq), and nan for NaN, which is what the dot product is
\* when vecA is longer than vecB (a * undefined).
CosineSimilarityUnguarded(vecA, vecB) ==
    IF Len(vecA) > Len(vecB)
       \/ SumOfSquares(vecA) = 0 \/ SumOfSquares(vecB) = 0
    THEN [nan |-> TRUE, dot |-> 0, normSq |-> 1]
    ELSE [nan |-> FALSE, dot |-> DotProduct(vecA, vecB),
          normSq |-> SumOfSquares(vecA) * SumOfSquares(vecB)]
CosineSimilarity(vecA, vecB) ==
    IF SumOfSquares(vecA) = 0 \/ SumOfSquares(vecB) = 0
    THEN [nan |-> FALSE, dot |-> 0, normSq |-> 1]
    ELSE IF Len(vecA) > Len(vecB)
    THEN [nan |-> TRUE, dot |-> 0, normSq |-> 1]
    ELSE [nan |-> FALSE, dot |-> DotProduct(vecA, vecB),
          normSq |-> SumOfSquares(vecA) * SumOfSquares(vecB)]

\* thresholds, in hundredths
TITLE_THRESHOLD == 45
DESCRIPTION_THRESHOLD == 45

\* similarity * scale >= k, for scale > 0; every comparison with NaN is false
TimesAtLeast(similarity, scale, k) ==
    /\ ~similarity.nan
    /\ IF k >= 0
       THEN /\ similarity.dot >= 0
            /\ scale * scale * similarity.dot * similarity.dot
                 >= k * k * similarity.normSq
       ELSE \/ similarity.dot >= 0
            \/ scale * scale * similarity.dot * similarity.dot
                 <= k * k * similarity.normSq

\* similarity >= threshold
AtLeastThresholdInMagnitude(similarity, threshold) ==
    /\ ~similarity.nan
    /\ 100 * 100 * similarity.dot * similarity.dot
         >= threshold * threshold * similarity.normSq
AtLeastThreshold(similarity, threshold) ==
    TimesAtLeast(similarity, 100, threshold)

\* Math.round(NaN)
NaN == 1000

\* the greatest n in lo..hi with n - 1/2 <= similarity * 100
RECURSIVE RoundWithin(_, _, _)
RoundWithin(similarity, lo, hi) ==
    IF lo = hi THEN lo
    ELSE LET mid == (lo + hi + 1) \div 2 IN
         IF TimesAtLeast(similarity, 200, 2 * mid - 1)
         THEN RoundWithin(similarity, mid, hi)
         ELSE RoundWithin(similarity, lo, mid - 1)

\* Math.round(similarity * 100): the integer n with n - 1/2 <= x < n + 1/2,
\* which lies in -100..100 because a cosine lies in -1..1
RoundedPercent(similarity) ==
    IF similarity.nan THEN NaN ELSE RoundWithin(similarity, -100, 100)

---------------------------------------------------------------------------
(* Relevance filter: ollama.ts and gemini.ts                               *)

\* jobs that enter the relevance filter
MaxChecks == 2

\* capacity of either jobTitleCache
MAX_CACHE_SIZE == 100

Providers == {"ollama", "gemini"}
\* pipelines whose provider calls may be in flight at the same time; the
\* second one takes a job only while the first is busy
Workers == {"w1", "w2"}
MayTakeJob(w) == w = "w1" \/ worker["w1"].pc # "idle"

\* "d", " d " and "o"
JobTitles == {<<100>>, <<32, 100, 32>>, <<111>>}

\* what ollama.embed can answer with
Embeddings == {<<1, 0>>, <<1, 1>>, <<-1, 0>>, <<0, 0>>, <<1, 0, 0>>}

\* an empty profile embedding is what getEmbedding leaves after a failure
ProfileEmbeddings == {<< >>, <<1, 0>>, <<1, 2>>}

\* ollama.embed throws, resolves without an embedding, or resolves with one
EmbedOutcomes ==
    {[kind |-> "threw", embedding |-> << >>],
     [kind |-> "undefined", embedding |-> << >>]}
    \cup {[kind |-> "vector", embedding |-> v] : v \in Embeddings}

\* a profile text of 51 characters ending in c, and the text "p"
LongProfile(c) == [i \in 1..51 |-> IF i = 51 THEN c ELSE 97]
UserProfiles == {<<112>>, LongProfile(65), LongProfile(66)}

\* "YES", " yes\n" and "NO"
ReplyTexts == {<<89, 69, 83>>, <<32, 121, 101, 115, 10>>, <<78, 79>>}

\* generateContent throws, resolves without text, or resolves with text
GenerateOutcomes ==
    {[kind |-> "threw", text |-> << >>],
     [kind |-> "undefined", text |-> << >>]}
    \cup {[kind |-> "text", text |-> t] : t \in ReplyTexts}

\* "", " \n" and " hi"
LetterTexts == {<< >>, <<32, 10>>, <<32, 104, 105>>}

\* the generation request throws, resolves without the text (ollama.ts: no
\* message.content; gemini.ts: no text), or resolves with a text
DraftOutcomes ==
    {[kind |-> "threw", text |-> << >>],
     [kind |-> "undefined", text |-> << >>]}
    \cup {[kind |-> "text", text |-> t] : t \in LetterTexts}

\* the two generic letters, "Hi! I am ..." and "Hi! I'm ..."
FallbackForEmpty == <<72, 105, 33, 32, 73, 32, 97, 109>>
FallbackAfterError == <<72, 105, 33, 32, 73, 39, 109>>

(* the Map both modules keep: a sequence of entries in insertion order      *)

CacheHas(cache, key) == \E i \in 1..Len(cache) : cache[i].key = key

CacheGet(cache, key) ==
    cache[CHOOSE i \in 1..Len(cache) : cache[i].key = key].value

\* the arguments of the call that stores an entry
StoredBy(jobTitle, profile) == [title |-> jobTitle, profile |-> profile]

\* Map.set: a present key keeps its place, a new key is added last. Beside
\* key and value an entry carries the arguments of the call that stored it;
\* the Map does not hold them, they record who stored what.
CacheSet(cache, key, value, storedBy) ==
    IF CacheHas(cache, key)
    THEN [i \in 1..Len(cache) |->
            IF cache[i].key = key
            THEN [key |-> key, value |-> value, storedBy |-> storedBy]
            ELSE cache[i]]
    ELSE Append(cache, [key |-> key, value |-> value, storedBy |-> storedBy])

\* if (jobTitleCache.size >= MAX_CACHE_SIZE) delete the first key
EvictOldestNever(cache) == cache
EvictNewest(cache) ==
    IF Len(cache) >= MAX_CACHE_SIZE THEN SubSeq(cache, 1, Len(cache) - 1)
    ELSE cache
EvictOldest(cache) ==
    IF Len(cache) >= MAX_CACHE_SIZE THEN Tail(cache) ELSE cache

\* a cache one entry short of its capacity, filled by earlier checks
OllamaFiller ==
    [n \in 1..(MAX_CACHE_SIZE - 1) |->
        [key |-> [title |-> <<1000 + n>>, len |-> 2],
         value |-> [relevant |-> TRUE, score |-> 71],
         storedBy |-> StoredBy(<<1000 + n>>, <<1, 0>>)]]
GeminiFiller ==
    [n \in 1..(MAX_CACHE_SIZE - 1) |->
        [key |-> <<1000 + n, 124, 112>>, value |-> TRUE,
         storedBy |-> StoredBy(<<1000 + n>>, <<112>>)]]

IdleWorker ==
    [pc |-> "idle", title |-> << >>, profile |-> << >>,
     titleOutcome |-> "none", titleReturned |-> << >>,
     descOutcome |-> "none", descReturned |-> << >>,
     titleEmbedding |-> << >>, descEmbedding |-> << >>,
     navigated |-> FALSE, record |-> << >>, event |-> "none",
     hit |-> << >>, generation |-> "none", letter |-> << >>]

RelAtRest ==
    /\ provider = "ollama"
    /\ userProfileEmbedding = << >>
    /\ userProfile = << >>
    /\ jobTitleCache = << >>
    /\ geminiJobTitleCache = << >>
    /\ worker = [w \in Workers |-> IdleWorker]
    /\ checksBegun = 0

(* ollama.ts                                                               *)

\* getEmbedding: the embedding, [] when ollama.embed threw
GetEmbedding(outcome) ==
    IF outcome.kind = "threw" THEN << >> ELSE outcome.embedding

\* `${jobTitle.trim()}|${userProfileEmbedding.length}`: the number after the
\* last "|" and the text before it
OllamaCacheKeyUntrimmed(jobTitle, profileEmbedding) ==
    [title |-> jobTitle, len |-> Len(profileEmbedding)]
OllamaCacheKey(jobTitle, profileEmbedding) ==
    [title |-> Trim(jobTitle), len |-> Len(profileEmbedding)]

\* titleEmbedding.length === 0 || userProfileEmbedding.length === 0
EmbeddingMissingNever(embedding, profileEmbedding) == FALSE
EmbeddingMissing(embedding, profileEmbedding) ==
    Len(embedding) = 0 \/ Len(profileEmbedding) = 0

FailOpen == [relevant |-> TRUE, score |-> -1]

\* { relevant: similarity >= threshold, score: Math.round(similarity * 100) }
Classified(embedding, profileEmbedding, threshold) ==
    LET similarity == CosineSimilarity(embedding, profileEmbedding) IN
    [relevant |-> AtLeastThreshold(similarity, threshold),
     score |-> RoundedPercent(similarity)]

\* what either check returns once getEmbedding has settled; reading .length
\* of an absent embedding throws and lands in the catch block
OllamaResult(outcome, profileEmbedding, threshold) ==
    IF outcome.kind = "undefined" THEN FailOpen
    ELSE IF EmbeddingMissing(GetEmbedding(outcome), profileEmbedding)
    THEN FailOpen
    ELSE Classified(GetEmbedding(outcome), profileEmbedding, threshold)

\* the result is cached unless the check returned early or threw
OllamaCachesNever(outcome, profileEmbedding) == FALSE
OllamaCachesAlways(outcome, profileEmbedding) == TRUE
OllamaCaches(outcome, profileEmbedding) ==
    /\ outcome.kind = "vector"
    /\ ~EmbeddingMissing(GetEmbedding(outcome), profileEmbedding)

\* the score a check returned, null with the module that returns a boolean
MatchScore(returned) ==
    IF provider = "ollama" THEN <<returned.score>> ELSE << >>

\* the data of the Application Record written for a skipped job
SkippedRecord(returned) ==
    [status |-> "skipped", matchScore |-> MatchScore(returned)]

\* where a job goes after Stage 1
StageAfterTitleAlwaysOn(relevant) == "stage2"
StageAfterTitle(relevant) == IF relevant THEN "stage2" ELSE "skipped"

\* the pipeline after Stage 1: a relevant title goes on to Stage 2, for
\* which the job page is opened; any other is skipped, its record written
\* and a skip event emitted. The title is not looked at again.
AfterTitle(w, kind, returned, relevant) ==
    [w EXCEPT !.pc = StageAfterTitle(relevant),
              !.title = << >>,
              !.titleOutcome = kind,
              !.titleReturned = <<returned>>,
              !.navigated = (StageAfterTitle(relevant) = "stage2"),
              !.record = IF relevant THEN << >>
                         ELSE <<SkippedRecord(returned)>>,
              !.event = IF relevant THEN "none" ELSE "skip"]

\* the pipeline after Stage 2: a relevant job goes on to drafting, any
\* other is skipped with the Stage-2 score
AfterDescription(w, kind, returned, relevant) ==
    [w EXCEPT !.pc = IF relevant THEN "drafting" ELSE "skipped",
              !.descOutcome = kind,
              !.descReturned = <<returned>>,
              !.record = IF relevant THEN << >>
                         ELSE <<SkippedRecord(returned)>>,
              !.event = IF relevant THEN "none" ELSE "skip"]

\* isJobTitleRelevant up to its await: a cache hit returns at once
OllamaIsJobTitleRelevantCall(w, jobTitle) ==
    /\ provider = "ollama"
    /\ worker[w].pc = "idle"
    /\ MayTakeJob(w)
    /\ checksBegun < MaxChecks
    /\ checksBegun' = checksBegun + 1
    /\ LET cacheKey == OllamaCacheKey(jobTitle, userProfileEmbedding)
           called == [IdleWorker EXCEPT !.title = jobTitle,
                                        !.profile = userProfileEmbedding]
       IN  worker' = [worker EXCEPT ![w] =
             IF CacheHas(jobTitleCache, cacheKey)
             THEN [AfterTitle(called, "cached",
                              CacheGet(jobTitleCache, cacheKey),
                              CacheGet(jobTitleCache, cacheKey).relevant)
                     EXCEPT !.hit = <<[key |-> cacheKey,
                                       title |-> jobTitle]>>]
             ELSE [called EXCEPT !.pc = "awaitTitle"]]
    /\ UNCHANGED <<provider, userProfileEmbedding, userProfile, jobTitleCache,
                   geminiJobTitleCache, apiVars, uiVars, ctlVars, dbVars,
                   embVars>>

\* isJobTitleRelevant after getEmbedding has settled
OllamaIsJobTitleRelevantReturn(w, outcome) ==
    /\ provider = "ollama"
    /\ worker[w].pc = "awaitTitle"
    /\ LET profileEmbedding == worker[w].profile
           cacheKey == OllamaCacheKey(worker[w].title, profileEmbedding)
           result == OllamaResult(outcome, profileEmbedding, TITLE_THRESHOLD)
       IN  /\ jobTitleCache' =
                 IF OllamaCaches(outcome, profileEmbedding)
                 THEN CacheSet(EvictOldest(jobTitleCache), cacheKey, result,
                               StoredBy(worker[w].title, worker[w].profile))
                 ELSE jobTitleCache
           /\ worker' = [worker EXCEPT ![w] =
                 [AfterTitle(worker[w], outcome.kind, result, result.relevant)
                    EXCEPT !.titleEmbedding = GetEmbedding(outcome)]]
    /\ UNCHANGED <<provider, userProfileEmbedding, userProfile,
                   geminiJobTitleCache, checksBegun, apiVars, uiVars, ctlVars,
                   dbVars, embVars>>

\* isJobRelevant, for a description whose embedding request ends in outcome
OllamaIsJobRelevant(w, outcome) ==
    /\ provider = "ollama"
    /\ worker[w].pc = "stage2"
    /\ LET result == OllamaResult(outcome, worker[w].profile,
                                  DESCRIPTION_THRESHOLD)
       IN  worker' = [worker EXCEPT ![w] =
             [AfterDescription(worker[w], outcome.kind, result,
                               result.relevant)
                EXCEPT !.descEmbedding = GetEmbedding(outcome)]]
    /\ UNCHANGED <<provider, userProfileEmbedding, userProfile, jobTitleCache,
                   geminiJobTitleCache, checksBegun, apiVars, uiVars, ctlVars,
                   dbVars, embVars>>

(* gemini.ts                                                               *)

\* `${jobTitle.trim()}|${userProfile.substring(0, 50)}`
GeminiCacheKey(jobTitle, profile) ==
    Trim(jobTitle) \o <<124>> \o Substring(profile, 50)

\* response.text?.trim().toUpperCase() || ''
ReplyText(outcome) ==
    IF outcome.kind = "undefined" THEN << >>
    ELSE ToUpperCase(Trim(outcome.text))

\* text.includes('YES')
SaysYes(outcome) == Includes(ReplyText(outcome), <<89, 69, 83>>)

\* what isJobTitleRelevant returns: the catch block returns true
GeminiTitleResult(outcome) ==
    IF outcome.kind = "threw" THEN TRUE ELSE SaysYes(outcome)

\* what isJobRelevant returns: the catch block returns false
GeminiDescriptionResult(outcome) ==
    IF outcome.kind = "threw" THEN FALSE ELSE SaysYes(outcome)

\* isJobTitleRelevant up to its await: a cache hit returns at once
GeminiIsJobTitleRelevantCall(w, jobTitle) ==
    /\ provider = "gemini"
    /\ worker[w].pc = "idle"
    /\ MayTakeJob(w)
    /\ checksBegun < MaxChecks
    /\ checksBegun' = checksBegun + 1
    /\ LET cacheKey == GeminiCacheKey(jobTitle, userProfile)
           called == [IdleWorker EXCEPT !.title = jobTitle,
                                        !.profile = userProfile]
       IN  worker' = [worker EXCEPT ![w] =
             IF CacheHas(geminiJobTitleCache, cacheKey)
             THEN [AfterTitle(called, "cached",
                              CacheGet(geminiJobTitleCache, cacheKey),
                              CacheGet(geminiJobTitleCache, cacheKey))
                     EXCEPT !.hit = <<[key |-> cacheKey,
                                       title |-> jobTitle]>>]
             ELSE [called EXCEPT !.pc = "awaitTitle"]]
    /\ UNCHANGED <<provider, userProfileEmbedding, userProfile, jobTitleCache,
                   geminiJobTitleCache, apiVars, uiVars, ctlVars, dbVars,
                   embVars>>

\* isJobTitleRelevant after generateContent has settled
GeminiIsJobTitleRelevantReturn(w, outcome) ==
    /\ provider = "gemini"
    /\ worker[w].pc = "awaitTitle"
    /\ LET cacheKey == GeminiCacheKey(worker[w].title, worker[w].profile)
           isRelevant == GeminiTitleResult(outcome)
       IN  /\ geminiJobTitleCache' =
                 IF outcome.kind = "threw" THEN geminiJobTitleCache
                 ELSE CacheSet(EvictOldest(geminiJobTitleCache), cacheKey,
                               isRelevant,
                               StoredBy(worker[w].title, worker[w].profile))
           /\ worker' = [worker EXCEPT ![w] =
                 AfterTitle(worker[w], outcome.kind, isRelevant, isRelevant)]
    /\ UNCHANGED <<provider, userProfileEmbedding, userProfile, jobTitleCache,
                   checksBegun, apiVars, uiVars, ctlVars, dbVars, embVars>>

\* isJobRelevant, for a description whose request ends in outcome
GeminiIsJobRelevant(w, outcome) ==
    /\ provider = "gemini"
    /\ worker[w].pc = "stage2"
    /\ LET isRelevant == GeminiDescriptionResult(outcome)
       IN  worker' = [worker EXCEPT ![w] =
             AfterDescription(worker[w], outcome.kind, isRelevant,
                              isRelevant)]
    /\ UNCHANGED <<provider, userProfileEmbedding, userProfile, jobTitleCache,
                   geminiJobTitleCache, checksBegun, apiVars, uiVars, ctlVars,
                   dbVars, embVars>>

\* the job reaches its terminal outcome (drafted and submitted, or skipped)
\* and the pipeline takes the next job
JobDone(w) ==
    /\ worker[w].pc \in {"drafting", "skipped"}
    /\ worker' = [worker EXCEPT ![w] = IdleWorker]
    /\ UNCHANGED <<provider, userProfileEmbedding, userProfile, jobTitleCache,
                   geminiJobTitleCache, checksBegun, apiVars, uiVars, ctlVars,
                   dbVars, embVars>>

(* generateApplication                                                     *)

\* text || fallback: the empty string is falsy
OrFallbackNever(text) == text
OrFallback(text) == IF text = << >> THEN FallbackForEmpty ELSE text

\* ollama.ts: response.message.content.trim() || fallback; a missing content
\* throws inside the try and ends in the catch like a failed request
OllamaGenerateApplicationResult(outcome) ==
    IF outcome.kind \in {"threw", "undefined"} THEN FallbackAfterError
    ELSE OrFallback(Trim(outcome.text))

\* gemini.ts: response.text?.trim() || fallback
GeminiGenerateApplicationResult(outcome) ==
    IF outcome.kind = "threw" THEN FallbackAfterError
    ELSE IF outcome.kind = "undefined" THEN OrFallback(<< >>)
    ELSE OrFallback(Trim(outcome.text))

\* what the generation request of a draft came to
GenerationKind(outcome) ==
    IF outcome.kind = "text" /\ Trim(outcome.text) = << >> THEN "empty"
    ELSE outcome.kind

\* the pipeline after drafting: the letter is filled in and the job is
\* recorded as submitted with the Stage-2 score
AfterDraft(w, outcome, letter) ==
    [w EXCEPT !.pc = "drafted",
              !.generation = GenerationKind(outcome),
              !.letter = <<letter>>,
              !.record = <<[status |-> "submitted",
                            matchScore |-> MatchScore(w.descReturned[1])]>>,
              !.event = "match"]

\* generateApplication of ollama.ts for a Stage-2 match
OllamaGenerateApplication(w, outcome) ==
    /\ provider = "ollama"
    /\ worker[w].pc = "drafting"
    /\ worker' = [worker EXCEPT ![w] =
          AfterDraft(worker[w], outcome,
                     OllamaGenerateApplicationResult(outcome))]
    /\ UNCHANGED <<provider, userProfileEmbedding, userProfile, jobTitleCache,
                   geminiJobTitleCache, checksBegun, apiVars, uiVars, ctlVars,
                   dbVars, embVars>>

\* generateApplication of gemini.ts for a Stage-2 match
GeminiGenerateApplication(w, outcome) ==
    /\ provider = "gemini"
    /\ worker[w].pc = "drafting"
    /\ worker' = [worker EXCEPT ![w] =
          AfterDraft(worker[w], outcome,
                     GeminiGenerateApplicationResult(outcome))]
    /\ UNCHANGED <<provider, userProfileEmbedding, userProfile, jobTitleCache,
                   geminiJobTitleCache, checksBegun, apiVars, uiVars, ctlVars,
                   dbVars, embVars>>

\* the drafted or skipped job is done and the pipeline takes the next job
DraftedJobDone(w) ==
    /\ worker[w].pc \in {"drafted", "skipped"}
    /\ worker' = [worker EXCEPT ![w] = IdleWorker]
    /\ UNCHANGED <<provider, userProfileEmbedding, userProfile, jobTitleCache,
                   geminiJobTitleCache, checksBegun, apiVars, uiVars, ctlVars,
                   dbVars, embVars>>

\* The candidate replaces their resume between jobs: the checks that follow
\* are passed the new profile (ollama.ts: its embedding; gemini.ts: its
\* text). The title caches are module state and stay as they are.
ReplaceResume ==
    /\ \A w \in Workers : worker[w].pc = "idle"
    /\ checksBegun > 0
    /\ checksBegun < MaxChecks
    /\ IF provider = "ollama"
       THEN /\ userProfileEmbedding' \in
                  ProfileEmbeddings \ {userProfileEmbedding}
            /\ UNCHANGED userProfile
       ELSE /\ userProfile' \in UserProfiles \ {userProfile}
            /\ UNCHANGED userProfileEmbedding
    /\ UNCHANGED <<provider, jobTitleCache, geminiJobTitleCache, worker,
                   checksBegun, apiVars, uiVars, ctlVars, dbVars, embVars>>

---------------------------------------------------------------------------
(* Persistence: the Company table and CompaniesController                  *)

\* company-create requests made by all runs
MaxCompanyRequests == 3

\* what a create request can carry as status: none, or a status
CompanyStatusInputs == {"", "failed"}

IdleCompanyReq ==
    [pc |-> "idle", url |-> "none", status |-> "", http |-> 0,
     carried |-> << >>]

DbAtRest ==
    /\ companies = << >>
    /\ companyReq = [r \in Runs |-> IdleCompanyReq]
    /\ companyRequests = 0

\* The row written by prisma.company.create: status: data.status || "visited".
\* The owner column is the X-User-Id of the request.
CompanyRow(owner, url, status) ==
    [userId |-> owner, url |-> url,
     status |-> IF status = "" THEN "visited" ELSE status]

CompanyRowsFor(owner, url) ==
    {i \in 1..Len(companies) :
        companies[i].userId = owner /\ companies[i].url = url}

\* CREATE UNIQUE INDEX "Company_userId_url_key": the insert is rejected when
\* a row with the same (userId, url) is present.
CompanyUniqueViolationNoIndex(owner, url) == FALSE
CompanyUniqueViolation(owner, url) == CompanyRowsFor(owner, url) # {}

\* prisma.company.findUnique({ where: { url } }): the lookup names the URL
\* only, whoever the requesting owner is.
CompanyFindByUrl(owner, url) ==
    \E i \in 1..Len(companies) : companies[i].url = url

\* the rows that lookup can return
CompanyFoundByUrl(owner, url) ==
    {companies[i] : i \in {j \in 1..Len(companies) : companies[j].url = url}}

\* CompaniesController.store up to its second await: the lookup, and 409
\* when a row was found
CompaniesStoreLookup(r, url, status) ==
    /\ companyReq[r].pc = "idle"
    /\ companyRequests < MaxCompanyRequests
    /\ companyRequests' = companyRequests + 1
    /\ IF CompanyFindByUrl(RunOwner[r], url)
       THEN \E existing \in CompanyFoundByUrl(RunOwner[r], url) :
               companyReq' = [companyReq EXCEPT ![r] =
                  [pc |-> "idle", url |-> url, status |-> status,
                   http |-> 409, carried |-> <<existing>>]]
       ELSE companyReq' = [companyReq EXCEPT ![r] =
               [pc |-> "creating", url |-> url, status |-> status,
                http |-> 0, carried |-> << >>]]
    /\ UNCHANGED <<companies, apiVars, uiVars, ctlVars, relVars, embVars>>

\* CompaniesController.store from prisma.company.create on: 201 with the
\* row, or the unique index rejects the insert and the request fails
CompaniesStoreCreate(r) ==
    /\ companyReq[r].pc = "creating"
    /\ IF CompanyUniqueViolation(RunOwner[r], companyReq[r].url)
       THEN /\ companyReq' = [companyReq EXCEPT ![r].pc = "idle",
                                                ![r].http = 500]
            /\ UNCHANGED companies
       ELSE /\ companies' = Append(companies,
                                   CompanyRow(RunOwner[r], companyReq[r].url,
                                              companyReq[r].status))
            /\ companyReq' = [companyReq EXCEPT ![r].pc = "idle",
                                                ![r].http = 201]
    /\ UNCHANGED <<companyRequests, apiVars, uiVars, ctlVars, relVars,
                   embVars>>

---------------------------------------------------------------------------
(* Persistence: the JobTextEmbedding table behind the embedding cache      *)

\* embedding-cache calls made by all callers
MaxEmbedCalls == 3

EmbedCallers == {"g1", "g2"}
EmbedModels == {"m1"}
TextHashes == {"h1", "h2"}
StoredVectors == {<<1, 0>>, <<0, 1>>}

IdleEmbedCall ==
    [pc |-> "idle", model |-> "none", textHash |-> "none", missed |-> FALSE,
     vector |-> << >>, outcome |-> "none"]

EmbAtRest ==
    /\ jobTextEmbeddings = << >>
    /\ embedCall = [g \in EmbedCallers |-> IdleEmbedCall]
    /\ embedCalls = 0

JobTextEmbeddingRowsFor(rows, model, textHash) ==
    {i \in 1..Len(rows) :
        rows[i].model = model /\ rows[i].textHash = textHash}

\* CREATE UNIQUE INDEX "JobTextEmbedding_model_textHash_key": an insert is
\* rejected when a row with the same (model, textHash) is present.
JobTextEmbeddingUniqueViolation(model, textHash) ==
    JobTextEmbeddingRowsFor(jobTextEmbeddings, model, textHash) # {}

\* where: { model_textHash: { model, textHash } } of the upsert: the row the
\* statement updates, 0 when it inserts. The statement is one
\* INSERT .. ON CONFLICT (model, textHash) DO UPDATE, so the row is found
\* and written in the same step.
UpsertConflictTargetNone(model, textHash) == 0
UpsertConflictTarget(model, textHash) ==
    IF JobTextEmbeddingRowsFor(jobTextEmbeddings, model, textHash) = {}
    THEN 0
    ELSE CHOOSE i \in JobTextEmbeddingRowsFor(jobTextEmbeddings, model,
                                              textHash) : TRUE

\* the vector of the row that findUnique returns
JobTextEmbeddingFindUnique(model, textHash) ==
    jobTextEmbeddings[
        CHOOSE i \in JobTextEmbeddingRowsFor(jobTextEmbeddings, model,
                                             textHash) : TRUE].embedding

\* prisma.jobTextEmbedding.findUnique({ where: { model_textHash } }) at the
\* start of getOrCompute: a hit returns the stored vector, a miss goes on to
\* the embedding provider
GetOrComputeLookup(g, model, textHash) ==
    /\ embedCall[g].pc = "idle"
    /\ embedCalls < MaxEmbedCalls
    /\ embedCalls' = embedCalls + 1
    /\ embedCall' = [embedCall EXCEPT ![g] =
          IF JobTextEmbeddingRowsFor(jobTextEmbeddings, model, textHash) = {}
          THEN [pc |-> "computing", model |-> model, textHash |-> textHash,
                missed |-> TRUE, vector |-> << >>, outcome |-> "none"]
          ELSE [pc |-> "idle", model |-> model, textHash |-> textHash,
                missed |-> FALSE,
                vector |-> JobTextEmbeddingFindUnique(model, textHash),
                outcome |-> "hit"]]
    /\ UNCHANGED <<jobTextEmbeddings, apiVars, uiVars, ctlVars, relVars,
                   dbVars>>

\* the embedding provider answers the miss: a vector, or a failure that
\* getOrCompute passes on to its caller
GetOrComputeProvider(g, outcome) ==
    /\ embedCall[g].pc = "computing"
    /\ embedCall' = [embedCall EXCEPT ![g] =
          IF outcome.kind = "vector"
          THEN [@ EXCEPT !.pc = "upserting", !.vector = outcome.vector]
          ELSE [@ EXCEPT !.pc = "idle", !.outcome = "failed"]]
    /\ UNCHANGED <<jobTextEmbeddings, embedCalls, apiVars, uiVars, ctlVars,
                   relVars, dbVars>>

\* prisma.jobTextEmbedding.upsert({ where: { model_textHash }, create: {
\* model, textHash, normalizedText, embedding }, update: { embedding } })
JobTextEmbeddingUpsert(g) ==
    /\ embedCall[g].pc = "upserting"
    /\ LET model == embedCall[g].model
           textHash == embedCall[g].textHash
           target == UpsertConflictTarget(model, textHash)
       IN  IF target # 0
           THEN /\ jobTextEmbeddings' =
                      [jobTextEmbeddings EXCEPT
                          ![target].embedding = embedCall[g].vector]
                /\ embedCall' = [embedCall EXCEPT ![g].pc = "idle",
                                                  ![g].outcome = "stored"]
           ELSE IF JobTextEmbeddingUniqueViolation(model, textHash)
           THEN /\ embedCall' = [embedCall EXCEPT ![g].pc = "idle",
                                                  ![g].outcome = "conflict"]
                /\ UNCHANGED jobTextEmbeddings
           ELSE /\ jobTextEmbeddings' =
                      Append(jobTextEmbeddings,
                             [model |-> model, textHash |-> textHash,
                              embedding |-> embedCall[g].vector])
                /\ embedCall' = [embedCall EXCEPT ![g].pc = "idle",
                                                  ![g].outcome = "stored"]
    /\ UNCHANGED <<embedCalls, apiVars, uiVars, ctlVars, relVars, dbVars>>

---------------------------------------------------------------------------
(* Persistence: the Application table                                      *)

\* The row written by prisma.application.create. The controller passes no
\* owner; the owner column is the X-User-Id of the request.
ApplicationRow(owner, jobUrl, status) ==
    [userId |-> owner, jobUrl |-> jobUrl, status |-> status]

RowsFor(owner, jobUrl) ==
    {i \in 1..Len(applications) :
        applications[i].userId = owner /\ applications[i].jobUrl = jobUrl}

\* CREATE UNIQUE INDEX "Application_userId_jobUrl_key": the insert is
\* rejected when a row with the same (userId, jobUrl) is present.
UniqueViolationNoIndex(owner, jobUrl) == FALSE
UniqueViolation(owner, jobUrl) == RowsFor(owner, jobUrl) # {}

\* prisma.application.findUnique({ where: { jobUrl } }): the lookup names the
\* job URL only, whoever the requesting owner is.
FindByJobUrl(owner, jobUrl) ==
    \E i \in 1..Len(applications) : applications[i].jobUrl = jobUrl

\* the rows that lookup can return
FoundByJobUrl(owner, jobUrl) ==
    {applications[i] :
        i \in {j \in 1..Len(applications) : applications[j].jobUrl = jobUrl}}

---------------------------------------------------------------------------
(* API client (desktop side)                                               *)

\* request<T>: a response that is not ok (status outside 200..299) throws.
Request(status) == IF status >= 200 /\ status <= 299 THEN "ok" ELSE "threw"

\* ApplicationsController.findByJobUrl answers 200 with the row or 404.
FindByJobUrlStatus(owner, jobUrl) ==
    IF FindByJobUrl(owner, jobUrl) THEN 200 ELSE 404

\* api.checkApplicationExists: true on 200, false on a 404 failure.
CheckApplicationExists(owner, jobUrl) ==
    Request(FindByJobUrlStatus(owner, jobUrl)) = "ok"

\* String(n) for a natural number
RECURSIVE NumberToString(_)
NumberToString(n) ==
    IF n < 10 THEN <<48 + n>>
    ELSE NumberToString(n \div 10) \o <<48 + (n % 10)>>

\* "API request failed: "
ApiRequestFailed ==
    <<65, 80, 73, 32, 114, 101, 113, 117, 101, 115, 116, 32, 102, 97, 105,
      108, 101, 100, 58, 32>>
\* "404"
Text404 == <<52, 48, 52>>

\* the reason phrases "OK", "Not Found", "Internal Server Error" and
\* "Bad Gateway"
StatusText(status) ==
    CASE status = 200 -> <<79, 75>>
      [] status = 404 -> <<78, 111, 116, 32, 70, 111, 117, 110, 100>>
      [] status = 500 ->
            <<73, 110, 116, 101, 114, 110, 97, 108, 32, 83, 101, 114, 118,
              101, 114, 32, 69, 114, 114, 111, 114>>
      [] status = 502 -> <<66, 97, 100, 32, 71, 97, 116, 101, 119, 97, 121>>

\* response bodies: none, the controllers' not-found message
\* {"message":"Application not found"}, and a stack line "at x.ts:404:9"
ResponseBodies ==
    {<< >>,
     <<123, 34, 109, 101, 115, 115, 97, 103, 101, 34, 58, 34, 65, 112, 112,
       108, 105, 99, 97, 116, 105, 111, 110, 32, 110, 111, 116, 32, 102,
       111, 117, 110, 100, 34, 125>>,
     <<97, 116, 32, 120, 46, 116, 115, 58, 52, 48, 52, 58, 57>>}

\* what fetch settles with: a response, or a rejection ("fetch failed")
\* when the server cannot be reached
FetchOutcomes ==
    {[kind |-> "response", status |-> st, body |-> b, message |-> << >>] :
        st \in {200, 404, 500, 502}, b \in ResponseBodies}
    \cup {[kind |-> "rejected", status |-> 0, body |-> << >>,
           message |-> <<102, 101, 116, 99, 104, 32, 102, 97, 105, 108, 101, 100>>]}

\* `API request failed: ${response.status} ${response.statusText} -
\* ${errorBody}`
ErrorMessage(response) ==
    ApiRequestFailed \o NumberToString(response.status) \o <<32>>
        \o StatusText(response.status) \o <<32, 45, 32>> \o response.body

\* request<T>: the message of the error it throws, none when it resolves
RequestError(fetched) ==
    IF fetched.kind = "rejected" THEN <<fetched.message>>
    ELSE IF fetched.status >= 200 /\ fetched.status <= 299 THEN << >>
    ELSE <<ErrorMessage(fetched)>>

\* e.message && e.message.includes('404')
MessageHas404(message) == Len(message) > 0 /\ Includes(message, Text404)

\* api.checkCompanyExists and api.checkApplicationExists: true when the
\* request resolves, false when its error message holds "404", and the error
\* rethrown otherwise
CheckExists(fetched) ==
    LET thrown == RequestError(fetched)
    IN  IF thrown = << >> THEN "true"
        ELSE IF MessageHas404(thrown[1]) THEN "false"
        ELSE "threw"

ExistenceChecks == {"checkCompanyExists", "checkApplicationExists"}

IdleLookup ==
    [pc |-> "idle", fn |-> "none", fetched |-> << >>, answer |-> "none"]

\* an existence check up to its fetch
CheckExistsCall(fn) ==
    /\ lookup.pc # "awaitFetch"
    /\ lookups < MaxLookups
    /\ lookups' = lookups + 1
    /\ lookup' = [IdleLookup EXCEPT !.pc = "awaitFetch", !.fn = fn]
    /\ UNCHANGED <<applications, run, jobsYielded, uiVars, ctlVars, relVars,
                   dbVars, embVars>>

\* the fetch settles and the check returns or throws
CheckExistsSettle(fetched) ==
    /\ lookup.pc = "awaitFetch"
    /\ lookup' = [lookup EXCEPT !.pc = "done", !.fetched = <<fetched>>,
                                !.answer = CheckExists(fetched)]
    /\ UNCHANGED <<applications, run, jobsYielded, lookups, uiVars, ctlVars,
                   relVars, dbVars, embVars>>

---------------------------------------------------------------------------
(* Crawl runs                                                              *)

IdleRun ==
    [pc |-> "idle", url |-> "none", check |-> "none", outcome |-> "none",
     http |-> 0, result |-> "none", dupKey |-> FALSE, carried |-> << >>]

ApiAtRest ==
    /\ applications = << >>
    /\ run = [r \in Runs |-> IdleRun]
    /\ jobsYielded = 0
    /\ lookup = IdleLookup
    /\ lookups = 0

InitApi == ApiAtRest /\ CtlAtRest /\ RelAtRest /\ DbAtRest /\ EmbAtRest

\* The crawl driver reaches a job link and asks the Dedup Ledger whether it
\* is new (api.checkApplicationExists); a new job begins processing.
BeginJob(r, u) ==
    /\ run[r].pc = "idle"
    /\ jobsYielded < MaxJobs
    /\ jobsYielded' = jobsYielded + 1
    /\ LET exists == CheckApplicationExists(RunOwner[r], u) IN
       run' = [run EXCEPT ![r] =
                 [IdleRun EXCEPT !.url = u,
                                 !.check = IF exists THEN "exists" ELSE "new",
                                 !.pc = IF exists THEN "idle" ELSE "processing"]]
    /\ UNCHANGED <<applications, clientVars, uiVars, ctlVars, relVars, dbVars,
                   embVars>>

\* The job is classified and api.createApplication posts it;
\* ApplicationsController.store first looks the job URL up and answers 409
\* when a row is found.
StoreLookup(r, st) ==
    /\ run[r].pc = "processing"
    /\ LET o == RunOwner[r]
           u == run[r].url
       IN IF FindByJobUrl(o, u)
          THEN \E existing \in FoundByJobUrl(o, u) :
                  run' = [run EXCEPT ![r].pc = "idle",
                                     ![r].http = 409,
                                     ![r].result = Request(409),
                                     ![r].dupKey = RowsFor(o, u) # {},
                                     ![r].carried = <<existing>>]
          ELSE run' = [run EXCEPT ![r].pc = "creating", ![r].outcome = st]
    /\ UNCHANGED <<applications, jobsYielded, clientVars, uiVars, ctlVars,
                   relVars, dbVars, embVars>>

\* store, after the lookup found nothing: prisma.application.create. A
\* unique-index violation is not caught by the controller and answers 500.
StoreCreate(r) ==
    /\ run[r].pc = "creating"
    /\ LET o == RunOwner[r]
           u == run[r].url
       IN IF UniqueViolation(o, u)
          THEN /\ run' = [run EXCEPT ![r].pc = "idle",
                                     ![r].outcome = "none",
                                     ![r].http = 500,
                                     ![r].result = Request(500),
                                     ![r].dupKey = TRUE]
               /\ UNCHANGED applications
          ELSE /\ applications' =
                      Append(applications, ApplicationRow(o, u, run[r].outcome))
               /\ run' = [run EXCEPT ![r].pc = "idle",
                                     ![r].outcome = "none",
                                     ![r].http = 201,
                                     ![r].result = Request(201)]
    /\ UNCHANGED <<jobsYielded, clientVars, uiVars, ctlVars, relVars, dbVars,
                   embVars>>

NextApi ==
    \/ \E r \in Runs, u \in Urls : BeginJob(r, u)
    \/ \E r \in Runs, st \in RecordStatus : StoreLookup(r, st)
    \/ \E r \in Runs : StoreCreate(r)

SpecApi == InitApi /\ [][NextApi]_vars

---------------------------------------------------------------------------
(* The controller specification                                            *)

InitCtl ==
    /\ ApiAtRest
    /\ RelAtRest
    /\ DbAtRest
    /\ EmbAtRest
    /\ ui = InitialUi
    /\ logs = << >>
    /\ uploads = 0
    /\ resumeSaved \in BOOLEAN
    /\ ipcToMain = << >>
    /\ ctl = "Idle"
    /\ job = "none"
    /\ jobsStarted = 0
    /\ jobErrors = 0
    /\ emitted = << >>
    /\ delivered = 0

NextCtl ==
    \/ \E p \in SavedProfiles : LoadProfileResolved(p)
    \/ LoadProfileRejected
    \/ OnEdit
    \/ OnCancel
    \/ FileUploadStart
    \/ \E ok \in BOOLEAN : FileUploadDone(ok)
    \/ HandleStart
    \/ HandleTogglePause
    \/ StopAutomation
    \/ OnLog
    \/ \E msg \in {"start", "pause", "resume", "stop"} : CtlHandle(msg)
    \/ CtlBeginJob
    \/ \E outcome \in {"match", "skip"} : CtlFinishJob(outcome)
    \/ CtlJobError

SpecCtl == InitCtl /\ [][NextCtl]_vars

---------------------------------------------------------------------------
(* The relevance filter on its own                                         *)

InitRel ==
    /\ ApiAtRest
    /\ CtlAtRest
    /\ DbAtRest
    /\ EmbAtRest
    /\ provider \in Providers
    /\ userProfileEmbedding \in
          (IF provider = "ollama" THEN ProfileEmbeddings ELSE {<< >>})
    /\ userProfile \in (IF provider = "gemini" THEN UserProfiles ELSE {<< >>})
    /\ jobTitleCache = << >>
    /\ geminiJobTitleCache = << >>
    /\ worker = [w \in Workers |-> IdleWorker]
    /\ checksBegun = 0

NextRel ==
    \/ \E w \in Workers, t \in JobTitles : OllamaIsJobTitleRelevantCall(w, t)
    \/ \E w \in Workers, o \in EmbedOutcomes :
          OllamaIsJobTitleRelevantReturn(w, o)
    \/ \E w \in Workers, o \in EmbedOutcomes : OllamaIsJobRelevant(w, o)
    \/ \E w \in Workers, t \in JobTitles : GeminiIsJobTitleRelevantCall(w, t)
    \/ \E w \in Workers, o \in GenerateOutcomes :
          GeminiIsJobTitleRelevantReturn(w, o)
    \/ \E w \in Workers, o \in GenerateOutcomes : GeminiIsJobRelevant(w, o)
    \/ \E w \in Workers : JobDone(w)
    \/ ReplaceResume

SpecRel == InitRel /\ [][NextRel]_vars

---------------------------------------------------------------------------
(* The title caches near their capacity, under titles that look alike      *)

\* "d", " d", "D", "d d" and "d  d"
KeyTitles ==
    {<<100>>, <<32, 100>>, <<68>>, <<100, 32, 100>>, <<100, 32, 32, 100>>}

\* what the providers answer in this specification
CacheEmbedOutcomes ==
    {[kind |-> "threw", embedding |-> << >>],
     [kind |-> "vector", embedding |-> <<1, 0>>],
     [kind |-> "vector", embedding |-> <<-1, 0>>]}
CacheGenerateOutcomes ==
    {[kind |-> "threw", text |-> << >>],
     [kind |-> "text", text |-> <<89, 69, 83>>],
     [kind |-> "text", text |-> <<78, 79>>]}

\* earlier checks have left the cache one entry short of its capacity
InitCache ==
    /\ ApiAtRest
    /\ CtlAtRest
    /\ DbAtRest
    /\ EmbAtRest
    /\ provider \in Providers
    /\ userProfileEmbedding = (IF provider = "ollama" THEN <<1, 0>> ELSE << >>)
    /\ userProfile = (IF provider = "gemini" THEN <<112>> ELSE << >>)
    /\ jobTitleCache = (IF provider = "ollama" THEN OllamaFiller ELSE << >>)
    /\ geminiJobTitleCache =
          (IF provider = "gemini" THEN GeminiFiller ELSE << >>)
    /\ worker = [w \in Workers |-> IdleWorker]
    /\ checksBegun = 0

NextCache ==
    \/ \E w \in Workers, t \in KeyTitles : OllamaIsJobTitleRelevantCall(w, t)
    \/ \E w \in Workers, o \in CacheEmbedOutcomes :
          OllamaIsJobTitleRelevantReturn(w, o)
    \/ \E w \in Workers, o \in CacheEmbedOutcomes : OllamaIsJobRelevant(w, o)
    \/ \E w \in Workers, t \in KeyTitles : GeminiIsJobTitleRelevantCall(w, t)
    \/ \E w \in Workers, o \in CacheGenerateOutcomes :
          GeminiIsJobTitleRelevantReturn(w, o)
    \/ \E w \in Workers, o \in CacheGenerateOutcomes :
          GeminiIsJobRelevant(w, o)
    \/ \E w \in Workers : JobDone(w)

SpecCache == InitCache /\ [][NextCache]_vars

---------------------------------------------------------------------------
(* The pipeline with its drafting step                                     *)

InitDraft ==
    /\ ApiAtRest
    /\ CtlAtRest
    /\ DbAtRest
    /\ EmbAtRest
    /\ provider \in Providers
    /\ userProfileEmbedding = (IF provider = "ollama" THEN <<1, 0>> ELSE << >>)
    /\ userProfile = (IF provider = "gemini" THEN <<112>> ELSE << >>)
    /\ jobTitleCache = << >>
    /\ geminiJobTitleCache = << >>
    /\ worker = [w \in Workers |-> IdleWorker]
    /\ checksBegun = 0

NextDraft ==
    \/ \E w \in Workers : OllamaIsJobTitleRelevantCall(w, <<100>>)
    \/ \E w \in Workers, o \in CacheEmbedOutcomes :
          OllamaIsJobTitleRelevantReturn(w, o)
    \/ \E w \in Workers, o \in CacheEmbedOutcomes : OllamaIsJobRelevant(w, o)
    \/ \E w \in Workers : GeminiIsJobTitleRelevantCall(w, <<100>>)
    \/ \E w \in Workers, o \in CacheGenerateOutcomes :
          GeminiIsJobTitleRelevantReturn(w, o)
    \/ \E w \in Workers, o \in CacheGenerateOutcomes :
          GeminiIsJobRelevant(w, o)
    \/ \E w \in Workers, o \in DraftOutcomes : OllamaGenerateApplication(w, o)
    \/ \E w \in Workers, o \in DraftOutcomes : GeminiGenerateApplication(w, o)
    \/ \E w \in Workers : DraftedJobDone(w)

SpecDraft == InitDraft /\ [][NextDraft]_vars

---------------------------------------------------------------------------
(* The similarity scorer on vectors with and without magnitude             *)

CosProfileEmbeddings == {<<0, 0>>, <<1, 0>>, <<3, 4>>}

CosEmbedOutcomes ==
    {[kind |-> "vector", embedding |-> v] :
        v \in {<<0, 0>>, <<1, 0>>, <<0, 1>>, <<-1, 0>>}}

InitCos ==
    /\ ApiAtRest
    /\ CtlAtRest
    /\ DbAtRest
    /\ EmbAtRest
    /\ provider = "ollama"
    /\ userProfileEmbedding \in CosProfileEmbeddings
    /\ userProfile = << >>
    /\ jobTitleCache = << >>
    /\ geminiJobTitleCache = << >>
    /\ worker = [w \in Workers |-> IdleWorker]
    /\ checksBegun = 0

NextCos ==
    \/ \E w \in Workers, t \in JobTitles : OllamaIsJobTitleRelevantCall(w, t)
    \/ \E w \in Workers, o \in CosEmbedOutcomes :
          OllamaIsJobTitleRelevantReturn(w, o)
    \/ \E w \in Workers, o \in CosEmbedOutcomes : OllamaIsJobRelevant(w, o)
    \/ \E w \in Workers : JobDone(w)

SpecCos == InitCos /\ [][NextCos]_vars

---------------------------------------------------------------------------
(* The API client's existence checks against any server                    *)

InitClient == ApiAtRest /\ CtlAtRest /\ RelAtRest /\ DbAtRest /\ EmbAtRest

NextClient ==
    \/ \E fn \in ExistenceChecks : CheckExistsCall(fn)
    \/ \E fetched \in FetchOutcomes : CheckExistsSettle(fetched)

SpecClient == InitClient /\ [][NextClient]_vars

---------------------------------------------------------------------------
(* The companies API under concurrent runs                                 *)

InitCo ==
    ApiAtRest /\ CtlAtRest /\ RelAtRest /\ DbAtRest /\ EmbAtRest

NextCo ==
    \/ \E r \in Runs, u \in Urls, st \in CompanyStatusInputs :
          CompaniesStoreLookup(r, u, st)
    \/ \E r \in Runs : CompaniesStoreCreate(r)

SpecCo == InitCo /\ [][NextCo]_vars

---------------------------------------------------------------------------
(* The embedding cache under concurrent callers                            *)

InitEmb ==
    ApiAtRest /\ CtlAtRest /\ RelAtRest /\ DbAtRest /\ EmbAtRest

NextEmb ==
    \/ \E g \in EmbedCallers, m \in EmbedModels, h \in TextHashes :
          GetOrComputeLookup(g, m, h)
    \/ \E g \in EmbedCallers,
          o \in {[kind |-> "threw", vector |-> << >>]}
                \cup {[kind |-> "vector", vector |-> v] : v \in StoredVectors} :
          GetOrComputeProvider(g, o)
    \/ \E g \in EmbedCallers : JobTextEmbeddingUpsert(g)

SpecEmb == InitEmb /\ [][NextEmb]_vars

---------------------------------------------------------------------------
(* Claims about the applications API (checked under SpecApi)               *)

\* r has had a create request answered by the API
Answered(r) == run[r].http # 0

\* C1: after two create-application requests of the same owner for the same
\* job URL have both been answered, whatever the interleaving of their
\* lookups and inserts, exactly one Application row exists for that
\* (owner, jobUrl).
C1_ExactlyOneAfterConcurrentCreates ==
    \A r \in Runs, s \in Runs :
        ( /\ r # s
          /\ RunOwner[r] = RunOwner[s]
          /\ Answered(r) /\ Answered(s)
          /\ run[r].url = run[s].url )
        => Cardinality(RowsFor(RunOwner[r], run[r].url)) = 1

\* C2: a create request whose (owner, jobUrl) row already exists is seen by
\* the run that issued it as success: createApplication does not throw.
C2_DuplicateCreateSeenAsSuccess ==
    \A r \in Runs : run[r].dupKey => run[r].result = "ok"

\* C3: an existence check or a create request of an owner reports "already
\* exists" only when that owner has a row for the URL; another owner's row
\* never makes it do so.
C3_ExistenceScopedByOwner ==
    \A r \in Runs :
        (run[r].check = "exists" \/ run[r].http = 409)
        => RowsFor(RunOwner[r], run[r].url) # {}

---------------------------------------------------------------------------
(* Claims about the controller and the renderer (checked under SpecCtl)    *)

\* the renderer's last toggle was a pause and the main process has handled it
PauseInForce ==
    /\ ui.isRunning
    /\ ui.isPaused
    /\ \A i \in 1..Len(ipcToMain) : ipcToMain[i] # "pause"

C6_StoppedIsTerminalAndSilent ==
    [][ ctl = "Stopped" =>
          /\ ctl' = "Stopped"
          /\ emitted' = emitted
          /\ job' = job
          /\ jobsStarted' = jobsStarted
          /\ jobErrors' = jobErrors
      ]_vars

\* C6 witness: stop arrived while a job was in flight.
C6_Witness == ctl = "Stopped" /\ job = "inflight"

\* C7: an unexpected error in one job is caught: an error event is emitted,
\* the controller keeps the state it had (Running stays Running) and the
\* job slot is free for the next yielded job.
C7_JobErrorDoesNotEndRun ==
    [][ jobErrors' # jobErrors =>
          /\ ctl \in {"Running", "Paused"}
          /\ ctl' = ctl
          /\ emitted' = Append(emitted, "error")
          /\ job' = "none"
      ]_vars

\* C7 witness: after a job's error the run is Running and the next job is
\* in flight.
C7_Witness ==
    /\ jobErrors >= 1
    /\ ctl = "Running"
    /\ job = "inflight"
    /\ emitted # << >>
    /\ emitted[Len(emitted)] = "error"

\* the renderer puts a start message on the channel in this step
StartIssued ==
    /\ Len(ipcToMain') = Len(ipcToMain) + 1
    /\ ipcToMain'[Len(ipcToMain')] = "start"

\* C10: start is issued only when a resume has been uploaded and processed,
\* and the controller leaves Idle for Running only then.
C10_StartRequiresProfile ==
    [][ /\ StartIssued => (ui.hasResume /\ resumeSaved)
        /\ (ctl = "Idle" /\ ctl' = "Running") => resumeSaved
      ]_vars

\* C10 witness: the automation was started and is Running.
C10_Witness ==
    /\ ui.isRunning
    /\ ctl = "Running"
    /\ resumeSaved

---------------------------------------------------------------------------
(* Relevance filter claims (SpecRel)                                       *)

\* Stage 1 of w has returned for its current job
TitleReturned(w) == worker[w].pc \in {"stage2", "drafting", "skipped"}

\* Stage 2 of w has returned for its current job
DescriptionReturned(w) == worker[w].descOutcome # "none"

\* C8: with the ollama module, a title check whose embedding call threw
\* returned { relevant: true, score: -1 } and the job went on to Stage 2;
\* a description check whose embedding call threw returned the same and the
\* job went on to drafting -- whatever the title and the profile embedding.
C8_OllamaChecksFailOpen ==
    \A w \in Workers :
        provider = "ollama" =>
            /\ worker[w].titleOutcome = "threw" =>
                  /\ worker[w].titleReturned = <<FailOpen>>
                  /\ worker[w].pc \in {"stage2", "drafting", "skipped"}
                  /\ worker[w].pc = "skipped" => DescriptionReturned(w)
            /\ worker[w].descOutcome = "threw" =>
                  /\ worker[w].descReturned = <<FailOpen>>
                  /\ worker[w].pc = "drafting"

\* Scenario C: the provider threw for both stages of one job, with a
\* computed profile embedding, and the job is at drafting
C8_Witness ==
    \E w \in Workers :
        /\ provider = "ollama"
        /\ Len(worker[w].profile) > 0
        /\ worker[w].titleOutcome = "threw"
        /\ worker[w].descOutcome = "threw"
        /\ worker[w].pc = "drafting"

\* what the check that returned last for w answered: relevant or not
ReturnedRelevant(returned) ==
    IF provider = "ollama" THEN returned[1].relevant ELSE returned[1]

\* C9: with either module, a title check or a description check whose
\* provider call threw answered relevant.
C9_EveryCheckFailsOpen ==
    \A w \in Workers :
        /\ worker[w].titleOutcome = "threw" =>
              ReturnedRelevant(worker[w].titleReturned)
        /\ worker[w].descOutcome = "threw" =>
              ReturnedRelevant(worker[w].descReturned)

\* the cosine of the equal-length vectors a and b is at least 9/20:
\* 20 * (a . b) >= 9 * |a| * |b|, with 0 for a vector of zero magnitude
CosineAtLeast045(a, b) ==
    LET dot == DotProduct(a, b)
        normSq == SumOfSquares(a) * SumOfSquares(b)
    IN  /\ normSq > 0
        /\ dot >= 0
        /\ 400 * dot * dot >= 81 * normSq

\* the check of this stage was computed from two non-empty embeddings of
\* one length
ComputedFrom(kind, embedding, profileEmbedding) ==
    /\ provider = "ollama"
    /\ kind = "vector"
    /\ Len(embedding) > 0
    /\ Len(embedding) = Len(profileEmbedding)

\* C11: a title check and a description check computed from a non-empty
\* embedding and a non-empty profile embedding answered relevant exactly
\* when their cosine similarity is at least 0.45.
C11_RelevantIffAtLeastThreshold ==
    \A w \in Workers :
        /\ ComputedFrom(worker[w].titleOutcome, worker[w].titleEmbedding,
                        worker[w].profile)
              => (worker[w].titleReturned[1].relevant
                    <=> CosineAtLeast045(worker[w].titleEmbedding,
                                         worker[w].profile))
        /\ ComputedFrom(worker[w].descOutcome, worker[w].descEmbedding,
                        worker[w].profile)
              => (worker[w].descReturned[1].relevant
                    <=> CosineAtLeast045(worker[w].descEmbedding,
                                         worker[w].profile))

\* C11 witness: one job whose title was computed relevant and whose
\* description was computed not relevant with a similarity just under 0.45
C11_Witness ==
    \E w \in Workers :
        /\ ComputedFrom(worker[w].titleOutcome, worker[w].titleEmbedding,
                        worker[w].profile)
        /\ worker[w].titleReturned[1].relevant
        /\ ComputedFrom(worker[w].descOutcome, worker[w].descEmbedding,
                        worker[w].profile)
        /\ ~worker[w].descReturned[1].relevant
        /\ worker[w].descReturned[1].score > 0

\* the provider failed for this check: its call threw or gave no embedding,
\* or the profile embedding is the empty one an earlier failure left
ProviderFailed(kind, profileEmbedding) ==
    kind \in {"threw", "undefined"} \/ Len(profileEmbedding) = 0

\* a score is the sentinel -1 of a provider failure, or a percentage 0..100
SentinelOrPercent(kind, returned, profileEmbedding) ==
    IF ProviderFailed(kind, profileEmbedding)
    THEN returned[1].score = -1
    ELSE returned[1].score \in 0..100

\* C12: every score a title check or a description check returned is -1,
\* and then the provider failed, or an integer in 0..100; a computed result
\* is never negative.
C12_ScoreIsSentinelOrPercent ==
    \A w \in Workers :
        provider = "ollama" =>
            /\ worker[w].titleOutcome # "none" =>
                  SentinelOrPercent(worker[w].titleOutcome,
                                    worker[w].titleReturned, worker[w].profile)
            /\ worker[w].descOutcome # "none" =>
                  SentinelOrPercent(worker[w].descOutcome,
                                    worker[w].descReturned, worker[w].profile)

\* Stage 1 of w's job returned not relevant
TitleRejected(w) ==
    /\ worker[w].titleOutcome # "none"
    /\ ~ReturnedRelevant(worker[w].titleReturned)

\* C13: a job whose title Stage 1 rejected is skipped: its record is written
\* with status skipped and the Stage-1 score, a skip event is emitted, the
\* job page is not opened and no Stage-2 check is made; a Stage-2 check is
\* made only for a job whose title Stage 1 found relevant.
C13_StageTwoOnlyAfterStageOne ==
    \A w \in Workers :
        /\ TitleRejected(w) =>
              /\ worker[w].pc = "skipped"
              /\ worker[w].record =
                    <<[status |-> "skipped",
                       matchScore |-> MatchScore(worker[w].titleReturned[1])]>>
              /\ worker[w].event = "skip"
              /\ ~worker[w].navigated
              /\ worker[w].descOutcome = "none"
        /\ (worker[w].descOutcome # "none" \/ worker[w].pc = "stage2") =>
              /\ worker[w].titleOutcome # "none"
              /\ ReturnedRelevant(worker[w].titleReturned)

\* C13 witness (Scenario B): Stage 1 computed a score under the threshold
\* and the job was skipped with that score
C13_Witness ==
    \E w \in Workers :
        /\ provider = "ollama"
        /\ worker[w].titleOutcome = "vector"
        /\ TitleRejected(w)
        /\ worker[w].titleReturned[1].score = 45
        /\ worker[w].record # << >>

\* the entries of the title cache stored under key
StoredUnder(cache, key) ==
    {cache[i].value : i \in {j \in 1..Len(cache) : cache[j].key = key}}

\* w's title check starts in this step
TitleCallStep(w) == worker[w].pc = "idle" /\ worker'[w].pc # "idle"

\* w's title check comes back from the provider in this step
TitleReturnStep(w) ==
    worker[w].pc = "awaitTitle" /\ worker'[w].pc # "awaitTitle"

\* a title check that finds its key in the cache calls no provider, leaves
\* the cache as it is and returns what is stored under the key
WarmCallReturnsStored(w) ==
    TitleCallStep(w) =>
        /\ worker'[w].pc = "awaitTitle" =>
              StoredUnder(jobTitleCache,
                          OllamaCacheKey(worker'[w].title,
                                         worker'[w].profile)) = {}
        /\ worker'[w].titleOutcome = "cached" =>
              /\ StoredUnder(jobTitleCache, worker'[w].hit[1].key)
                    = {worker'[w].titleReturned[1]}
              /\ jobTitleCache' = jobTitleCache

\* after the provider call of a title check the cache holds, under the
\* check's key, the result the check returned
ReturnLeavesResultStored(w) ==
    StoredUnder(jobTitleCache',
                OllamaCacheKey(worker[w].title, worker[w].profile))
       = {worker'[w].titleReturned[1]}

TitleCache ==
    IF provider = "ollama" THEN jobTitleCache ELSE geminiJobTitleCache

\* the profiles of the calls that stored the entries under key
StoredFor(cache, key) ==
    {cache[i].storedBy.profile :
        i \in {j \in 1..Len(cache) : cache[j].key = key}}

\* C17: a title check answered from the cache is answered with a result
\* that was stored by a call made with the same profile.
C17_CachedResultOnlyForStoringProfile ==
    [][ \A w \in Workers :
          (TitleCallStep(w) /\ worker'[w].titleOutcome = "cached") =>
              StoredFor(TitleCache, worker'[w].hit[1].key)
                 = {worker'[w].profile}
      ]_vars

---------------------------------------------------------------------------
(* Title cache claims (SpecCache)                                          *)

\* the title that w's title check is called with in this step
CalledTitle(w) ==
    IF worker'[w].pc = "awaitTitle" THEN worker'[w].title
    ELSE worker'[w].hit[1].title

\* w's title check is answered in this step with the entry at place i
AnsweredFromEntry(w, i) ==
    /\ worker'[w].titleOutcome = "cached"
    /\ worker'[w].hit[1].key = TitleCache[i].key
    /\ worker'[w].titleReturned = <<TitleCache[i].value>>

C19_CacheNeverExceedsCapacity ==
    /\ Len(jobTitleCache) <= MAX_CACHE_SIZE
    /\ Len(geminiJobTitleCache) <= MAX_CACHE_SIZE

\* C19 witness: the cache is at its capacity after its oldest entry was
\* evicted
C19_Witness ==
    /\ Len(TitleCache) = MAX_CACHE_SIZE
    /\ TitleCache[1].storedBy.title = <<1002>>

\* the keys of a cache, in insertion order
KeysOf(cache) == [i \in 1..Len(cache) |-> cache[i].key]

\* C24: a title check that stores its result while the cache is at capacity
\* evicts exactly the entry inserted earliest: the entries left are those
\* after the first one, in their order, followed by the stored one when its
\* key is new; a check answered from the cache leaves the cache, and so the
\* eviction order, as it is.
C24_EvictsEarliestOnly ==
    [][ \A w \in Workers :
          /\ (/\ TitleReturnStep(w)
              /\ TitleCache' # TitleCache
              /\ Len(TitleCache) = MAX_CACHE_SIZE)
                => \/ /\ Len(TitleCache') = MAX_CACHE_SIZE
                      /\ SubSeq(KeysOf(TitleCache'), 1, MAX_CACHE_SIZE - 1)
                            = KeysOf(Tail(TitleCache))
                      /\ \A i \in 1..Len(TitleCache) :
                            TitleCache[i].key
                               # TitleCache'[MAX_CACHE_SIZE].key
                   \/ KeysOf(TitleCache') = KeysOf(Tail(TitleCache))
          /\ (TitleCallStep(w) /\ worker'[w].titleOutcome = "cached")
                => TitleCache' = TitleCache
      ]_vars

\* C24 witness: the cache is at capacity, its oldest entry was evicted for
\* the result of a check, which is the newest entry
C24_Witness ==
    /\ Len(TitleCache) = MAX_CACHE_SIZE
    /\ TitleCache[1].storedBy.title = <<1002>>
    /\ TitleCache[MAX_CACHE_SIZE].storedBy.title \in KeyTitles

---------------------------------------------------------------------------
(* Drafting claims (SpecDraft)                                             *)

\* C20: every generateApplication call made for a Stage-2 match returns,
\* whatever the generation request came to: the job becomes drafted with a
\* non-empty letter, which is one of the generic letters when the request
\* failed or gave an empty text, and gets its terminal record.
C20_DraftingNeverFailsAJob ==
    [][ \A w \in Workers :
          (worker[w].pc = "drafting" /\ worker'[w] # worker[w]) =>
             /\ worker'[w].pc = "drafted"
             /\ Len(worker'[w].letter) = 1
             /\ Len(worker'[w].letter[1]) > 0
             /\ worker'[w].generation \in {"threw", "undefined", "empty"} =>
                   worker'[w].letter[1]
                      \in {FallbackForEmpty, FallbackAfterError}
             /\ Len(worker'[w].record) = 1
             /\ worker'[w].record[1].status = "submitted"
      ]_vars

\* C20 witness: one job was drafted after the generation request threw,
\* another after it gave a blank text
C20_Witness ==
    /\ worker["w1"].pc = "drafted"
    /\ worker["w1"].generation = "threw"
    /\ worker["w2"].pc = "drafted"
    /\ worker["w2"].generation = "empty"

---------------------------------------------------------------------------
(* Similarity scorer claims (SpecCos)                                      *)

\* every component of vec is 0
ZeroMagnitude(vec) == \A i \in 1..Len(vec) : vec[i] = 0

\* what a check returns when cosineSimilarity returned 0
ClassifiedZero == [relevant |-> FALSE, score |-> 0]

\* C21: a check computed from two embeddings of one length of which one has
\* zero magnitude got 0 from cosineSimilarity: it answered score 0, not
\* relevant, and never the NaN of a division of 0 by 0.
C21_ZeroMagnitudeGivesZero ==
    \A w \in Workers :
        /\ (/\ ComputedFrom(worker[w].titleOutcome, worker[w].titleEmbedding,
                            worker[w].profile)
            /\ \/ ZeroMagnitude(worker[w].titleEmbedding)
               \/ ZeroMagnitude(worker[w].profile))
              => worker[w].titleReturned = <<ClassifiedZero>>
        /\ (/\ ComputedFrom(worker[w].descOutcome, worker[w].descEmbedding,
                            worker[w].profile)
            /\ \/ ZeroMagnitude(worker[w].descEmbedding)
               \/ ZeroMagnitude(worker[w].profile))
              => worker[w].descReturned = <<ClassifiedZero>>

\* C21 witness: against a profile embedding of zero magnitude one title
\* check was computed from [1, 0] and another from [0, 0]
C21_Witness ==
    /\ worker["w1"].profile = <<0, 0>>
    /\ worker["w1"].titleOutcome = "vector"
    /\ worker["w1"].titleEmbedding = <<1, 0>>
    /\ worker["w2"].titleOutcome = "vector"
    /\ worker["w2"].titleEmbedding = <<0, 0>>

---------------------------------------------------------------------------
(* Claims about both create endpoints                                      *)

\* the Application rows stored under the key of r's create request
ApplicationsUnderKey(r) ==
    {applications[i] : i \in RowsFor(RunOwner[r], run[r].url)}

\* the Company rows stored under the key of r's create request with url u
CompaniesUnderKey(r, u) ==
    {companies[i] : i \in CompanyRowsFor(RunOwner[r], u)}

---------------------------------------------------------------------------
(* Activity log claims (SpecCtl)                                           *)

\* the jobs of the session that reached outcome
JobsWithOutcome(outcome) ==
    Cardinality({i \in 1..Len(emitted) : emitted[i] = outcome})

\* C23: the matched counter of the activity log is the number of jobs that
\* reached the matched outcome and the skipped counter the number of jobs
\* that were skipped.
C23_CountersEqualJobOutcomes ==
    /\ MatchedCount = JobsWithOutcome("match")
    /\ SkippedCount = JobsWithOutcome("skip")

---------------------------------------------------------------------------
(* Companies API claims (SpecCo)                                           *)

ScoreAtLeast(score, k) == score # NaN /\ score >= k

\* the flag of a result agrees with its score
FlagAgreesWithScore(returned, threshold) ==
    returned[1].score # -1 =>
        (returned[1].relevant <=> ScoreAtLeast(returned[1].score, threshold))

\* C25: in every result of the ollama module with a score other than -1,
\* relevant is true exactly when the score is at least 45.
C25_FlagAgreesWithReportedScore ==
    \A w \in Workers :
        provider = "ollama" =>
            /\ worker[w].titleReturned # << >> =>
                  FlagAgreesWithScore(worker[w].titleReturned,
                                      TITLE_THRESHOLD)
            /\ worker[w].descReturned # << >> =>
                  FlagAgreesWithScore(worker[w].descReturned,
                                      DESCRIPTION_THRESHOLD)

\* the result was computed by cosineSimilarity from the two embeddings
SimilarityComputedFrom(outcomeKind, embedding, profileEmbedding) ==
    /\ outcomeKind = "vector"
    /\ ~EmbeddingMissing(embedding, profileEmbedding)

\* C26: a classification returned by either stage of the ollama module was
\* computed from a job-text embedding and a profile embedding of equal length.
C26_SimilarityOnlyOfEqualLengths ==
    \A w \in Workers :
        provider = "ollama" =>
            /\ (/\ worker[w].titleReturned # << >>
                /\ SimilarityComputedFrom(worker[w].titleOutcome,
                                worker[w].titleEmbedding, worker[w].profile))
                  => Len(worker[w].titleEmbedding) = Len(worker[w].profile)
            /\ (/\ worker[w].descReturned # << >>
                /\ SimilarityComputedFrom(worker[w].descOutcome,
                                worker[w].descEmbedding, worker[w].profile))
                  => Len(worker[w].descEmbedding) = Len(worker[w].profile)

\* the title check of wk came back from a failed provider call with the
\* fail-open answer
FailedOpen(wk) ==
    IF provider = "ollama"
    THEN /\ wk.titleOutcome \in {"threw", "undefined", "vector"}
         /\ wk.titleReturned = <<FailOpen>>
    ELSE /\ wk.titleOutcome = "threw"
         /\ wk.titleReturned = <<TRUE>>

\* C27: a title check that fails open stores nothing, no entry of the
\* ollama cache is the fail-open result, and a title check is answered
\* without calling the provider only from an entry stored under its key.
C27_FailOpenNeverCached ==
    /\ [](\A i \in 1..Len(jobTitleCache) : jobTitleCache[i].value # FailOpen)
    /\ [][ \A w \in Workers :
             /\ (TitleReturnStep(w) /\ FailedOpen(worker'[w]))
                   => TitleCache' = TitleCache
             /\ (TitleCallStep(w) /\ worker'[w].pc # "awaitTitle")
                   => /\ worker'[w].titleOutcome = "cached"
                      /\ StoredUnder(TitleCache, worker'[w].hit[1].key)
                            = {worker'[w].titleReturned[1]}
         ]_vars

\* C27 witness: the first check failed open on a throwing provider and left
\* the cache empty, and the second check is calling the provider
C27_Witness ==
    \E w1, w2 \in Workers :
        /\ w1 # w2
        /\ checksBegun = 2
        /\ worker[w1].titleOutcome = "threw"
        /\ FailedOpen(worker[w1])
        /\ TitleCache = << >>
        /\ worker[w2].pc = "awaitTitle"
        /\ worker[w2].profile = worker[w1].profile

\* the renderer sends msg to the main process in this step
Sent(msg) == ipcToMain' = Append(ipcToMain, msg)

\* C29: paused implies running; start is sent only while not running and
\* running never ends, so it is sent at most once; pause is sent only while
\* running and not paused, resume only while running and paused, and
\* isPaused, false at start, changes exactly when one of them is sent, so
\* the messages after start alternate pause, resume, pause, ...
C29_PauseResumeAlternateAfterOneStart ==
    /\ [](ui.isPaused => ui.isRunning)
    /\ [][ /\ ui.isRunning => ui'.isRunning
           /\ Sent("start") =>
                 ~ui.isRunning /\ ui'.isRunning /\ ~ui'.isPaused
           /\ Sent("pause") =>
                 ui.isRunning /\ ~ui.isPaused /\ ui'.isPaused
           /\ Sent("resume") =>
                 ui.isRunning /\ ui.isPaused /\ ~ui'.isPaused
           /\ ui'.isPaused # ui.isPaused => Sent("pause") \/ Sent("resume")
         ]_vars

\* C29 witness: after start was sent and handled, pause and then resume
\* were sent
C29_Witness ==
    /\ ui.isRunning
    /\ ~ui.isPaused
    /\ ctl = "Running"
    /\ ipcToMain = <<"pause", "resume">>

\* the entry came from the controller
IsMainLog(entry) == entry.from = "main"

\* the types of the displayed entries that came from the controller
DisplayedMainLogs ==
    LET main == SelectSeq(logs, IsMainLog)
    IN  [i \in 1..Len(main) |-> main[i].type]

\* C30: the displayed entries that came from the controller are the events
\* it emitted, each once and in emission order, up to those still on their
\* way; and a step changes the displayed log only by adding one entry at its
\* end.
C30_LogAppendOnlyInEmissionOrder ==
    /\ [](DisplayedMainLogs = SubSeq(emitted, 1, delivered))
    /\ [][ \/ logs' = logs
           \/ /\ Len(logs') = Len(logs) + 1
              /\ SubSeq(logs', 1, Len(logs)) = logs
         ]_vars

\* C30 witness: two different events of the controller are displayed, in
\* the order they were emitted, after an entry the renderer added itself
C30_Witness ==
    /\ delivered = 2
    /\ emitted[1] # emitted[2]
    /\ Len(logs) > 2
    /\ ~IsMainLog(logs[1])
    /\ IsMainLog(logs[Len(logs)])

---------------------------------------------------------------------------
(* API client claims (SpecClient)                                          *)

\* C28: an existence check answers false only when the API answered the
\* lookup with status 404, and every other failure is thrown.
C28_FalseOnlyOn404 ==
    lookup.pc = "done" =>
        LET fetched == lookup.fetched[1]
            answered404 == fetched.kind = "response" /\ fetched.status = 404
        IN  /\ lookup.answer = "false" => answered404
            /\ (RequestError(fetched) # << >> /\ ~answered404)
                  => lookup.answer = "threw"

---------------------------------------------------------------------------
(* Embedding cache claims (SpecEmb)                                        *)

=============================================================================
